---- MODULE Spec2Model ----
(***************************************************************************)
(* rustore: a single-file, append-only key-value store.  The log file is   *)
(* a sequence of bytes, the index a map from key to record offset.         *)
(* Model of src/src/lib.rs (Database, Header, Entry).                      *)
(***************************************************************************)
EXTENDS Integers, Sequences, FiniteSets, TLC

(* ---------------------------- bounds ----------------------------------- *)
MaxOps == 3
MaxSessions == 2
MaxRacePuts == 2
MaxIOOps == 2
MaxReplayRecords == 2
MaxHighLimb == 1
MaxServerOps == 2

(* ---------------------------- inputs ----------------------------------- *)
\* keys and values as UTF-8 bytes: "" and "kl"; "" and "xy"
Keys == {<<>>, <<107, 108>>}
Values == {<<>>, <<120, 121>>}

Engines == {1, 2}
Main == CHOOSE i \in Engines : \A j \in Engines : i <= j

(* ---------------------------- state ------------------------------------ *)
VARIABLES
  exists,     \* a file exists at the path
  disk,       \* the bytes of the log file at the path
  open,       \* open[i]: engine i holds a Database value
  index,      \* index[i]: Database.index of engine i, key -> offset
  pending,    \* pending[i]: a put of engine i between metadata() and write_at
  exclusion,  \* callers hold an external lock around each operation
  result,     \* outcome of the last operation
  history,    \* the operations that succeeded on the file, in order
  fault,      \* what the system calls of the last operation did
  replay,     \* load_index run one loop iteration at a time
  cast,       \* put's `len() as u32` casts on lengths of any width
  server      \* the network front end of examples/server.rs

vars == <<exists, disk, open, index, pending, exclusion, result, history,
          fault, replay, cast, server>>

NoFault == [kind |-> "none", n |-> 0]
NoReplay == [pc |-> "idle", offset |-> 0, visited |-> <<>>, header_bytes |-> <<>>]
NoCast == [pc |-> "idle", key_len |-> <<0, 0, 0>>, value_len |-> <<0, 0, 0>>,
           key_size |-> <<0, 0, 0>>, value_size |-> <<0, 0, 0>>]
NoServer == [pc |-> "idle", conn |-> "none", last |-> "none", reply |-> "none"]

NoPending == [set |-> FALSE, key |-> <<>>, value |-> <<>>, offset |-> 0]
EmptyIndex == [k \in {} |-> 0]

Min(a, b) == IF a < b THEN a ELSE b
Max(a, b) == IF a > b THEN a ELSE b

(* ---------------------------- integers --------------------------------- *)
\* `x as u32`: the low 32 bits, as two 16-bit halves
AsU32(n) == ((n \div 65536) % 65536) * 65536 + (n % 65536)

\* u32::to_le_bytes
ToLeBytes(n) ==
  <<n % 256, (n \div 256) % 256, (n \div 65536) % 256, (n \div 16777216) % 256>>

\* u32::from_le_bytes
FromLeBytes(b) == b[1] + 256 * b[2] + 65536 * b[3] + 16777216 * b[4]

(* ---------------------------- file I/O --------------------------------- *)
\* FileExt::read_at into a zeroed buffer of n bytes: the buffer afterwards
ReadAtBuf(f, n, off) ==
  [i \in 1..n |-> IF off + i <= Len(f) THEN f[off + i] ELSE 0]

\* FileExt::read_at: the number of bytes read (0 at or past end of file)
ReadAtCount(f, n, off) == Max(0, Min(n, Len(f) - off))

\* FileExt::write_at: the file afterwards (a gap is zero filled)
WriteAt(f, bytes, off) ==
  [i \in 1..Max(Len(f), off + Len(bytes)) |->
     IF i > off /\ i <= off + Len(bytes) THEN bytes[i - off]
     ELSE IF i <= Len(f) THEN f[i] ELSE 0]

\* String::from_utf8 succeeds; the model's bytes are all below 128 (ASCII)
IsUtf8(bytes) == \A i \in 1..Len(bytes) : bytes[i] < 128

(* ---------------------------- Header / Entry --------------------------- *)
\* Header::SIZE = size_of::<Header>(): u32,u32,bool,u32,u32 has 17 bytes of
\* fields and alignment 4, so the in-memory size is 20
HeaderSize == 20

HeaderToBytes(h) ==
  LET fields == ToLeBytes(h.checksum) \o ToLeBytes(h.timestamp)
                \o <<IF h.is_deleted THEN 1 ELSE 0>>
                \o ToLeBytes(h.key_size) \o ToLeBytes(h.value_size)
  IN  [i \in 1..HeaderSize |-> IF i <= Len(fields) THEN fields[i] ELSE 0]

HeaderFromBytes(b) ==
  [checksum   |-> FromLeBytes(SubSeq(b, 1, 4)),
   timestamp  |-> FromLeBytes(SubSeq(b, 5, 8)),
   is_deleted |-> b[9] # 0,
   key_size   |-> FromLeBytes(SubSeq(b, 10, 13)),
   value_size |-> FromLeBytes(SubSeq(b, 14, 17))]

\* mutant: the value bytes are not appended
EntryToBytesNoValue(e) == HeaderToBytes(e.header) \o e.key

EntryToBytes(e) == HeaderToBytes(e.header) \o e.key \o e.value

EntryFromBytes(b) ==
  LET header == HeaderFromBytes(SubSeq(b, 1, HeaderSize))
  IN  [header |-> header,
       key    |-> SubSeq(b, HeaderSize + 1, HeaderSize + header.key_size),
       value  |-> SubSeq(b, HeaderSize + header.key_size + 1, Len(b))]

\* the Entry that put builds
NewEntry(key, value) ==
  [header |-> [checksum |-> 0, timestamp |-> 0, is_deleted |-> FALSE,
               key_size |-> AsU32(Len(key)), value_size |-> AsU32(Len(value))],
   key |-> key, value |-> value]

(* ---------------------------- index ------------------------------------ *)
\* mutant: an existing entry is kept (entry().or_insert)
IndexInsertKeepFirst(idx, key, off) ==
  [k \in DOMAIN idx \cup {key} |-> IF k \in DOMAIN idx THEN idx[k] ELSE off]

\* HashMap::insert
IndexInsert(idx, key, off) ==
  [k \in DOMAIN idx \cup {key} |-> IF k = key THEN off ELSE idx[k]]

\* mutant: the entry is not removed
IndexRemoveNoop(idx, key) == idx

\* mutant: the whole map is cleared
IndexRemoveClear(idx, key) == EmptyIndex

\* HashMap::remove
IndexRemove(idx, key) == [k \in DOMAIN idx \ {key} |-> idx[k]]

\* mutant: replay keeps the first offset seen for a key
RECURSIVE LoadIndexFromKeepFirst(_, _, _)
LoadIndexFromKeepFirst(f, offset, idx) ==
  IF ReadAtCount(f, HeaderSize, offset) = 0 THEN idx
  ELSE LET header == HeaderFromBytes(ReadAtBuf(f, HeaderSize, offset))
           entry_size == HeaderSize + header.key_size + header.value_size
           entry == EntryFromBytes(ReadAtBuf(f, entry_size, offset))
       IN  LoadIndexFromKeepFirst(f, offset + entry_size,
             IF entry.key \in DOMAIN idx THEN idx
             ELSE [k \in DOMAIN idx \cup {entry.key} |->
                     IF k = entry.key THEN offset ELSE idx[k]])

\* mutant: replay honours is_deleted and drops the key
RECURSIVE LoadIndexFromSkipDeleted(_, _, _)
LoadIndexFromSkipDeleted(f, offset, idx) ==
  IF ReadAtCount(f, HeaderSize, offset) = 0 THEN idx
  ELSE LET header == HeaderFromBytes(ReadAtBuf(f, HeaderSize, offset))
           entry_size == HeaderSize + header.key_size + header.value_size
           entry == EntryFromBytes(ReadAtBuf(f, entry_size, offset))
       IN  LoadIndexFromSkipDeleted(f, offset + entry_size,
             IF header.is_deleted
             THEN [k \in DOMAIN idx \ {entry.key} |-> idx[k]]
             ELSE [k \in DOMAIN idx \cup {entry.key} |->
                     IF k = entry.key THEN offset ELSE idx[k]])

\* Database::load_index, from the cursor `offset` on
RECURSIVE LoadIndexFrom(_, _, _)
LoadIndexFrom(f, offset, idx) ==
  IF ReadAtCount(f, HeaderSize, offset) = 0 THEN idx
  ELSE LET header == HeaderFromBytes(ReadAtBuf(f, HeaderSize, offset))
           entry_size == HeaderSize + header.key_size + header.value_size
           entry == EntryFromBytes(ReadAtBuf(f, entry_size, offset))
       IN  LoadIndexFrom(f, offset + entry_size,
                         IndexInsert(idx, entry.key, offset))

LoadIndex(f) == LoadIndexFrom(f, 0, EmptyIndex)

(* ---------------------------- operations ------------------------------- *)
\* number of opens, and of puts and deletes, that succeeded so far
Sessions == Cardinality({j \in 1..Len(history) : history[j].op = "open"})
Ops == Len(history) - Sessions

Res(op, eng, key, res, value) ==
  [op |-> op, eng |-> eng, key |-> key, res |-> res, value |-> value]

Hist(op, eng, key, value, offset) ==
  [op |-> op, eng |-> eng, key |-> key, value |-> value, offset |-> offset]

\* Database::get as a function of the index and the file
GetValue(idx, f, key) ==
  IF key \in DOMAIN idx
  THEN LET offset == idx[key]
           header == HeaderFromBytes(ReadAtBuf(f, HeaderSize, offset))
           value_bytes == ReadAtBuf(f, header.value_size,
                                    offset + header.key_size + HeaderSize)
       IN  IF IsUtf8(value_bytes)
           THEN [res |-> "Ok", value |-> value_bytes]
           ELSE [res |-> "InvalidData", value |-> <<>>]
  ELSE [res |-> "NotFound", value |-> <<>>]

\* mutant: the offset is the handle's stream position, which write_at
\* never advances
PutOffsetStart(f) == 0

\* put: the offset it writes at, file.metadata().len()
PutOffset(f) == Len(f)

\* put: the file after write_at of the serialized entry
PutDisk(f, key, value, offset) ==
  WriteAt(f, EntryToBytes(NewEntry(key, value)), offset)

\* mutant: the header written back is built anew instead of read from disk
DeleteDiskFreshHeader(f, offset) ==
  WriteAt(f, HeaderToBytes([checksum |-> 0, timestamp |-> 0, is_deleted |-> TRUE,
                            key_size |-> 0, value_size |-> 0]), offset)

\* delete: the file after the header is rewritten with is_deleted = true
DeleteDisk(f, offset) ==
  LET header == HeaderFromBytes(ReadAtBuf(f, HeaderSize, offset))
  IN  WriteAt(f, HeaderToBytes([header EXCEPT !.is_deleted = TRUE]), offset)

\* NamedTempFile::new() of the test harness: an empty file at the path
CreateFile ==
  /\ ~exists
  /\ exists' = TRUE
  /\ disk' = <<>>
  /\ result' = Res("create", Main, <<>>, "Ok", <<>>)
  /\ UNCHANGED <<open, index, pending, exclusion, history>>
  /\ UNCHANGED <<fault, replay, cast, server>>

\* mutant: OpenOptions with create(true)
OpenCreate(i) ==
  /\ ~open[i]
  /\ Sessions < MaxSessions
  /\ exists' = TRUE
  /\ disk' = IF exists THEN disk ELSE <<>>
  /\ open' = [open EXCEPT ![i] = TRUE]
  /\ index' = [index EXCEPT ![i] = IF exists THEN LoadIndex(disk) ELSE EmptyIndex]
  /\ result' = Res("open", i, <<>>, "Ok", <<>>)
  /\ history' = Append(history, Hist("open", i, <<>>, <<>>, 0))
  /\ UNCHANGED <<pending, exclusion>>
  /\ UNCHANGED <<fault, replay, cast, server>>

\* Database::open
Open(i) ==
  /\ ~open[i]
  /\ IF ~exists
     THEN /\ result' = Res("open", i, <<>>, "IoError", <<>>)
          /\ UNCHANGED <<disk, open, index, history>>
     ELSE /\ Sessions < MaxSessions
          /\ open' = [open EXCEPT ![i] = TRUE]
          /\ index' = [index EXCEPT ![i] = LoadIndex(disk)]
          /\ result' = Res("open", i, <<>>, "Ok", <<>>)
          /\ history' = Append(history, Hist("open", i, <<>>, <<>>, 0))
          /\ UNCHANGED disk
  /\ UNCHANGED <<exists, pending, exclusion>>
  /\ UNCHANGED <<fault, replay, cast, server>>

\* Database::get
Get(i, key) ==
  /\ open[i]
  /\ LET r == GetValue(index[i], disk, key)
     IN  result' = Res("get", i, key, r.res, r.value)
  /\ UNCHANGED <<exists, disk, open, index, pending, exclusion, history>>
  /\ UNCHANGED <<fault, replay, cast, server>>

\* Database::put
Put(i, key, value) ==
  /\ open[i]
  /\ Ops < MaxOps
  /\ LET offset == PutOffset(disk)
     IN  /\ disk' = PutDisk(disk, key, value, offset)
         /\ index' = [index EXCEPT ![i] = IndexInsert(@, key, offset)]
         /\ history' = Append(history, Hist("put", i, key, value, offset))
  /\ result' = Res("put", i, key, "Ok", <<>>)
  /\ UNCHANGED <<exists, open, pending, exclusion>>
  /\ UNCHANGED <<fault, replay, cast, server>>

\* mutant: a miss is reported as success
DeleteMissingOk(i, key) ==
  /\ open[i]
  /\ IF key \in DOMAIN index[i]
     THEN /\ Ops < MaxOps
          /\ disk' = DeleteDisk(disk, index[i][key])
          /\ index' = [index EXCEPT ![i] = IndexRemove(@, key)]
          /\ result' = Res("delete", i, key, "Ok", <<>>)
          /\ history' = Append(history,
                               Hist("delete", i, key, <<>>, index[i][key]))
     ELSE /\ result' = Res("delete", i, key, "Ok", <<>>)
          /\ UNCHANGED <<disk, index, history>>
  /\ UNCHANGED <<exists, open, pending, exclusion>>
  /\ UNCHANGED <<fault, replay, cast, server>>

\* Database::delete
Delete(i, key) ==
  /\ open[i]
  /\ IF key \in DOMAIN index[i]
     THEN /\ Ops < MaxOps
          /\ disk' = DeleteDisk(disk, index[i][key])
          /\ index' = [index EXCEPT ![i] = IndexRemove(@, key)]
          /\ result' = Res("delete", i, key, "Ok", <<>>)
          /\ history' = Append(history,
                               Hist("delete", i, key, <<>>, index[i][key]))
     ELSE /\ result' = Res("delete", i, key, "NotFound", <<>>)
          /\ UNCHANGED <<disk, index, history>>
  /\ UNCHANGED <<exists, open, pending, exclusion>>
  /\ UNCHANGED <<fault, replay, cast, server>>

\* Database::close: sync_all, the Database stays usable
Close(i) ==
  /\ open[i]
  /\ result' = Res("close", i, <<>>, "Ok", <<>>)
  /\ UNCHANGED <<exists, disk, open, index, pending, exclusion, history>>
  /\ UNCHANGED <<fault, replay, cast, server>>

\* the Database value goes out of scope
Drop(i) ==
  /\ open[i]
  /\ open' = [open EXCEPT ![i] = FALSE]
  /\ index' = [index EXCEPT ![i] = EmptyIndex]
  /\ result' = Res("drop", i, <<>>, "Ok", <<>>)
  /\ UNCHANGED <<exists, disk, pending, exclusion, history>>
  /\ UNCHANGED <<fault, replay, cast, server>>

(* ------------- one engine, one caller: the usage contract -------------- *)
Init ==
  /\ exists = FALSE
  /\ disk = <<>>
  /\ open = [i \in Engines |-> FALSE]
  /\ index = [i \in Engines |-> EmptyIndex]
  /\ pending = [i \in Engines |-> NoPending]
  /\ exclusion = TRUE
  /\ result = Res("init", Main, <<>>, "Ok", <<>>)
  /\ history = <<>>
  /\ fault = NoFault
  /\ replay = NoReplay
  /\ cast = NoCast
  /\ server = NoServer

Next ==
  \/ CreateFile
  \/ Open(Main)
  \/ \E key \in Keys : Get(Main, key)
  \/ \E key \in Keys, value \in Values : Put(Main, key, value)
  \/ \E key \in Keys : Delete(Main, key)
  \/ Close(Main)
  \/ Drop(Main)

Spec == Init /\ [][Next]_vars

(* ------- two engines on one log file, put split at its system calls ---- *)
Pending == Cardinality({i \in Engines : pending[i].set})

\* put, first half: build the entry and query the file length
PutLen(i, key, value) ==
  /\ open[i]
  /\ ~pending[i].set
  /\ exclusion => Pending = 0
  /\ Ops + Pending < MaxRacePuts
  /\ pending' = [pending EXCEPT ![i] =
                   [set |-> TRUE, key |-> key, value |-> value,
                    offset |-> PutOffset(disk)]]
  /\ result' = Res("put_len", i, key, "Ok", <<>>)
  /\ UNCHANGED <<exists, disk, open, index, exclusion, history>>
  /\ UNCHANGED <<fault, replay, cast, server>>

\* put, second half: write_at the offset queried before, update the index
PutWrite(i) ==
  /\ pending[i].set
  /\ LET p == pending[i]
     IN  /\ disk' = PutDisk(disk, p.key, p.value, p.offset)
         /\ index' = [index EXCEPT ![i] = IndexInsert(@, p.key, p.offset)]
         /\ history' = Append(history, Hist("put", i, p.key, p.value, p.offset))
         /\ result' = Res("put", i, p.key, "Ok", <<>>)
  /\ pending' = [pending EXCEPT ![i] = NoPending]
  /\ UNCHANGED <<exists, open, exclusion>>
  /\ UNCHANGED <<fault, replay, cast, server>>

\* get of an engine that is not inside a put
GetShared(i, key) ==
  /\ ~pending[i].set
  /\ exclusion => Pending = 0
  /\ Get(i, key)

\* both engines were opened on the empty file
InitRace ==
  /\ exists = TRUE
  /\ disk = <<>>
  /\ open = [i \in Engines |-> TRUE]
  /\ index = [i \in Engines |-> EmptyIndex]
  /\ pending = [i \in Engines |-> NoPending]
  /\ exclusion \in BOOLEAN
  /\ result = Res("open", Main, <<>>, "Ok", <<>>)
  /\ history = <<>>
  /\ fault = NoFault
  /\ replay = NoReplay
  /\ cast = NoCast
  /\ server = NoServer

NextRace ==
  \/ \E i \in Engines, key \in Keys, value \in Values : PutLen(i, key, value)
  \/ \E i \in Engines : PutWrite(i)
  \/ \E i \in Engines, key \in Keys : GetShared(i, key)

SpecRace == InitRace /\ [][NextRace]_vars

(* ------------- one engine whose system calls can fail ------------------ *)
\* byte counts a write_at of len bytes may stop at: nothing, up to the
\* is_deleted byte, the header only, all but the last byte
ShortCounts(len) == {n \in {0, 8, HeaderSize, len - 1} : n >= 0 /\ n < len}

\* what the system calls of a put or delete can do around a write of len bytes
WriteOutcomes(len) ==
  {[kind |-> "none", n |-> len],
   [kind |-> "call_err", n |-> 0],
   [kind |-> "write_err", n |-> 0]}
  \cup {[kind |-> "write_short", n |-> m] : m \in ShortCounts(len)}

\* Database::put, with metadata() or write_at failing or writing short:
\* only Err is propagated, the byte count write_at returns is dropped
PutIO(i, key, value, w) ==
  /\ open[i]
  /\ Ops < MaxIOOps
  /\ LET entry_bytes == EntryToBytes(NewEntry(key, value))
         offset == PutOffset(disk)
     IN  IF w.kind \in {"call_err", "write_err"}
         THEN /\ result' = Res("put", i, key, "IoError", <<>>)
              /\ history' = Append(history,
                                   Hist("put_failed", i, key, value, offset))
              /\ UNCHANGED <<disk, index>>
         ELSE /\ disk' = WriteAt(disk, SubSeq(entry_bytes, 1, w.n), offset)
              /\ index' = [index EXCEPT ![i] = IndexInsert(@, key, offset)]
              /\ result' = Res("put", i, key, "Ok", <<>>)
              /\ history' = Append(history,
                   Hist(IF w.kind = "none" THEN "put" ELSE "put_short",
                        i, key, value, offset))
  /\ fault' = w
  /\ UNCHANGED <<exists, open, pending, exclusion, replay, cast, server>>

\* Database::delete, with the header read_at or write_at failing or the
\* write_at writing short
DeleteIO(i, key, w) ==
  /\ open[i]
  /\ IF key \in DOMAIN index[i]
     THEN /\ Ops < MaxIOOps
          /\ LET offset == index[i][key]
                 header == HeaderFromBytes(ReadAtBuf(disk, HeaderSize, offset))
                 header_bytes == HeaderToBytes([header EXCEPT !.is_deleted = TRUE])
             IN  IF w.kind \in {"call_err", "write_err"}
                 THEN /\ result' = Res("delete", i, key, "IoError", <<>>)
                      /\ history' = Append(history,
                           Hist("delete_failed", i, key, <<>>, offset))
                      /\ UNCHANGED <<disk, index>>
                 ELSE /\ disk' = WriteAt(disk, SubSeq(header_bytes, 1, w.n), offset)
                      /\ index' = [index EXCEPT ![i] = IndexRemove(@, key)]
                      /\ result' = Res("delete", i, key, "Ok", <<>>)
                      /\ history' = Append(history,
                           Hist(IF w.kind = "none" THEN "delete" ELSE "delete_short",
                                i, key, <<>>, offset))
          /\ fault' = w
     ELSE /\ result' = Res("delete", i, key, "NotFound", <<>>)
          /\ fault' = NoFault
          /\ UNCHANGED <<disk, index, history>>
  /\ UNCHANGED <<exists, open, pending, exclusion, replay, cast, server>>

\* number of header reads load_index makes on the file: one per record and
\* the last one at the end of the file
RECURSIVE HeaderReads(_, _)
HeaderReads(f, offset) ==
  IF ReadAtCount(f, HeaderSize, offset) = 0 THEN 1
  ELSE LET header == HeaderFromBytes(ReadAtBuf(f, HeaderSize, offset))
       IN  1 + HeaderReads(f, offset + HeaderSize + header.key_size
                                     + header.value_size)

\* what the reads of a replay of f can do: all succeed, the header read of
\* iteration n fails, or the read of the whole entry of iteration n fails
ReadOutcomes(f) ==
  {[kind |-> "none", n |-> 0]}
  \cup {[kind |-> "header_read_err", n |-> m] : m \in 1..HeaderReads(f, 0)}
  \cup {[kind |-> "entry_read_err", n |-> m] : m \in 1..(HeaderReads(f, 0) - 1)}

\* Database::load_index under the read outcome r, from iteration iter on:
\* the Err of the header read is returned, the Result of the entry read is
\* dropped and its zeroed buffer is decoded
RECURSIVE LoadIndexIO(_, _, _, _, _)
LoadIndexIO(f, offset, idx, iter, r) ==
  IF r.kind = "header_read_err" /\ r.n = iter
  THEN [res |-> "IoError", index |-> idx]
  ELSE IF ReadAtCount(f, HeaderSize, offset) = 0
  THEN [res |-> "Ok", index |-> idx]
  ELSE LET header == HeaderFromBytes(ReadAtBuf(f, HeaderSize, offset))
           entry_size == HeaderSize + header.key_size + header.value_size
           entry_bytes == IF r.kind = "entry_read_err" /\ r.n = iter
                          THEN [j \in 1..entry_size |-> 0]
                          ELSE ReadAtBuf(f, entry_size, offset)
           entry == EntryFromBytes(entry_bytes)
       IN  LoadIndexIO(f, offset + entry_size,
                       IndexInsert(idx, entry.key, offset), iter + 1, r)

\* no put stopped short: the log is a concatenation of whole records
WholeRecords == \A j \in 1..Len(history) : history[j].op # "put_short"

\* Database::open of the existing file, with reads that can fail; the replay
\* of a truncated log is left out (its sizes are read from payload bytes)
OpenIO(i, r) ==
  /\ ~open[i]
  /\ exists
  /\ WholeRecords
  /\ Sessions < MaxSessions
  /\ LET loaded == LoadIndexIO(disk, 0, EmptyIndex, 1, r)
     IN  IF loaded.res = "Ok"
         THEN /\ open' = [open EXCEPT ![i] = TRUE]
              /\ index' = [index EXCEPT ![i] = loaded.index]
              /\ result' = Res("open", i, <<>>, "Ok", <<>>)
              /\ history' = Append(history, Hist("open", i, <<>>, <<>>, 0))
         ELSE /\ result' = Res("open", i, <<>>, "IoError", <<>>)
              /\ UNCHANGED <<open, index, history>>
  /\ fault' = r
  /\ UNCHANGED <<exists, disk, pending, exclusion, replay, cast, server>>

\* the engine was opened on the empty file
InitIO ==
  /\ exists = TRUE
  /\ disk = <<>>
  /\ open = [i \in Engines |-> i = Main]
  /\ index = [i \in Engines |-> EmptyIndex]
  /\ pending = [i \in Engines |-> NoPending]
  /\ exclusion = TRUE
  /\ result = Res("open", Main, <<>>, "Ok", <<>>)
  /\ history = <<Hist("open", Main, <<>>, <<>>, 0)>>
  /\ fault = NoFault
  /\ replay = NoReplay
  /\ cast = NoCast
  /\ server = NoServer

NextIO ==
  \/ \E key \in Keys, value \in Values :
       \E w \in WriteOutcomes(Len(EntryToBytes(NewEntry(key, value)))) :
         PutIO(Main, key, value, w)
  \/ \E key \in Keys : \E w \in WriteOutcomes(HeaderSize) : DeleteIO(Main, key, w)
  \/ \E key \in Keys : Get(Main, key)
  \/ Drop(Main)
  \/ WholeRecords /\ \E r \in ReadOutcomes(disk) : OpenIO(Main, r)

SpecIO == InitIO /\ [][NextIO]_vars

(* ------------- load_index, one loop iteration per step ----------------- *)
\* the records a log can be made of
RecordChoices == [key : Keys, value : Values, is_deleted : BOOLEAN]

ReplayInputs == UNION {[1..n -> RecordChoices] : n \in 0..MaxReplayRecords}

\* the bytes of a record as put wrote it and delete may have flagged it
RecordBytes(rec) ==
  EntryToBytes([header |-> [NewEntry(rec.key, rec.value).header
                              EXCEPT !.is_deleted = rec.is_deleted],
                key |-> rec.key, value |-> rec.value])

RECURSIVE LogOf(_)
LogOf(recs) ==
  IF Len(recs) = 0 THEN <<>>
  ELSE LogOf(SubSeq(recs, 1, Len(recs) - 1)) \o RecordBytes(recs[Len(recs)])

\* the lengths a log of these records is cut to: the whole log, or a cut
\* inside its last record (a cut further back is a cut of a shorter log),
\* in the header, at its end, or in the payload
CutsOf(recs) ==
  IF Len(recs) = 0 THEN {0}
  ELSE LET start == Len(LogOf(SubSeq(recs, 1, Len(recs) - 1)))
           end == Len(LogOf(recs))
       IN  {n \in {start + 1, start + 8, start + HeaderSize, end - 1, end} :
              n > start /\ n <= end}

\* the puts that wrote the records, and a mark when the log was cut short
WritersOf(recs, cut) ==
  [j \in 1..Len(recs) |->
     Hist("put", Main, recs[j].key, recs[j].value,
          Len(LogOf(SubSeq(recs, 1, j - 1))))]
  \o (IF cut THEN <<Hist("truncate", Main, <<>>, <<>>, 0)>> ELSE <<>>)

\* FileExt::read_at into a buffer that is reused: the bytes read overwrite
\* the front of the buffer, the rest keeps what the last iteration left
ReadAtInto(f, buf, off) ==
  [i \in 1..Len(buf) |-> IF off + i <= Len(f) THEN f[off + i] ELSE buf[i]]

\* mutant: the cursor advances by the payload only
ReplayStepNoHeader ==
  /\ replay.pc = "loop"
  /\ ReadAtCount(disk, HeaderSize, replay.offset) # 0
  /\ \E offset \in {replay.offset} :
       \E header_bytes \in {ReadAtInto(disk, replay.header_bytes, offset)} :
       \E header \in {HeaderFromBytes(header_bytes)} :
         \E entry_size \in {HeaderSize + header.key_size + header.value_size} :
           \E entry \in {EntryFromBytes(ReadAtBuf(disk, entry_size, offset))} :
             /\ index' = [index EXCEPT
                            ![Main] = IndexInsert(@, entry.key, offset)]
             /\ replay' = [pc |-> "loop",
                           offset |-> offset + header.key_size + header.value_size,
                           visited |-> Append(replay.visited, offset),
                           header_bytes |-> header_bytes]
  /\ UNCHANGED <<exists, disk, open, pending, exclusion, result, history,
                 fault, cast, server>>

\* load_index: an iteration whose header read returns bytes
ReplayStep ==
  /\ replay.pc = "loop"
  /\ ReadAtCount(disk, HeaderSize, replay.offset) # 0
  /\ \E offset \in {replay.offset} :
       \E header_bytes \in {ReadAtInto(disk, replay.header_bytes, offset)} :
       \E header \in {HeaderFromBytes(header_bytes)} :
         \E entry_size \in {HeaderSize + header.key_size + header.value_size} :
           \E entry \in {EntryFromBytes(ReadAtBuf(disk, entry_size, offset))} :
             /\ index' = [index EXCEPT
                            ![Main] = IndexInsert(@, entry.key, offset)]
             /\ replay' = [pc |-> "loop",
                           offset |-> offset + entry_size,
                           visited |-> Append(replay.visited, offset),
                           header_bytes |-> header_bytes]
  /\ UNCHANGED <<exists, disk, open, pending, exclusion, result, history,
                 fault, cast, server>>

\* load_index: the header read returns Ok(0), the loop breaks, open returns
ReplayEnd ==
  /\ replay.pc = "loop"
  /\ ReadAtCount(disk, HeaderSize, replay.offset) = 0
  /\ replay' = [replay EXCEPT !.pc = "done"]
  /\ open' = [open EXCEPT ![Main] = TRUE]
  /\ result' = Res("open", Main, <<>>, "Ok", <<>>)
  /\ UNCHANGED <<exists, disk, index, pending, exclusion, history,
                 fault, cast, server>>

\* Database::open: the file at the path holds a log, whole or cut short;
\* open creates the Database with an empty index and enters load_index
ReplayOpen(recs, n) ==
  /\ replay.pc = "idle"
  /\ disk' = SubSeq(LogOf(recs), 1, n)
  /\ history' = WritersOf(recs, n < Len(LogOf(recs)))
  /\ index' = [index EXCEPT ![Main] = EmptyIndex]
  /\ replay' = [pc |-> "loop", offset |-> 0, visited |-> <<>>,
                header_bytes |-> [i \in 1..HeaderSize |-> 0]]
  /\ UNCHANGED <<exists, open, pending, exclusion, result, fault, cast, server>>

\* a file exists at the path and open is about to be called
InitReplay ==
  /\ exists = TRUE
  /\ disk = <<>>
  /\ history = <<>>
  /\ open = [i \in Engines |-> FALSE]
  /\ index = [i \in Engines |-> EmptyIndex]
  /\ pending = [i \in Engines |-> NoPending]
  /\ exclusion = TRUE
  /\ result = Res("init", Main, <<>>, "Ok", <<>>)
  /\ fault = NoFault
  /\ replay = NoReplay
  /\ cast = NoCast
  /\ server = NoServer

NextReplay ==
  \/ /\ replay.pc = "idle"
     /\ \E recs \in ReplayInputs :
          \E n \in CutsOf(recs) : ReplayOpen(recs, n)
  \/ ReplayStep
  \/ ReplayEnd

\* the loop runs to completion inside the call of open: once entered, its
\* next iteration is always taken
SpecReplay ==
  InitReplay /\ [][NextReplay]_vars /\ WF_vars(ReplayStep \/ ReplayEnd)

(* ---------------------------- size fields ------------------------------ *)
\* A usize length as three 16-bit limbs, most significant first, so that
\* lengths of 2^32 bytes and more can be told from their low 32 bits.
Limbs == {0, 1, 65535}
Lengths == {<<h, m, l>> : h \in 0..MaxHighLimb, m \in {0, 65535}, l \in Limbs}

\* `key.len() as u32`: the low 32 bits of the length
AsU32Limbs(len) == <<0, len[2], len[3]>>

\* Database::put: the header's size fields for a key and a value of these
\* lengths
PutSizes(key_len, value_len) ==
  /\ cast.pc = "idle"
  /\ cast' = [pc |-> "written", key_len |-> key_len, value_len |-> value_len,
              key_size |-> AsU32Limbs(key_len),
              value_size |-> AsU32Limbs(value_len)]
  /\ UNCHANGED <<exists, disk, open, index, pending, exclusion, result,
                 history, fault, replay, server>>

InitSizes ==
  /\ exists = TRUE
  /\ disk = <<>>
  /\ history = <<>>
  /\ open = [i \in Engines |-> i = Main]
  /\ index = [i \in Engines |-> EmptyIndex]
  /\ pending = [i \in Engines |-> NoPending]
  /\ exclusion = TRUE
  /\ result = Res("open", Main, <<>>, "Ok", <<>>)
  /\ fault = NoFault
  /\ replay = NoReplay
  /\ cast = NoCast
  /\ server = NoServer

NextSizes == \E key_len \in Lengths, value_len \in Lengths :
               PutSizes(key_len, value_len)

SpecSizes == InitSizes /\ [][NextSizes]_vars

(* ---------------------------- network front end ------------------------ *)
\* examples/server.rs: one process, one connection at a time, one command
\* per read. A token is a non-empty run of non-blank bytes.
ServerKeys == {<<107>>, <<107, 108>>}
ServerValues == {<<120>>, <<120, 121>>}
Verbs == {"get", "GET", "put", "Put", "delete", "DELETE", "ping"}

\* the tokens after the verb: none, a key, or a key and a value
Args ==
  {<<>>} \cup {<<k>> : k \in ServerKeys}
         \cup {<<k, v>> : k \in ServerKeys, v \in ServerValues}

\* str::to_lowercase on the verbs of the model
ToLowercase(verb) ==
  CASE verb \in {"get", "GET"} -> "get"
    [] verb \in {"put", "Put"} -> "put"
    [] verb \in {"delete", "DELETE"} -> "delete"
    [] OTHER -> verb

\* a panic unwinds main: the process ends and its sockets are closed
Panicked(last) ==
  [pc |-> "panicked", conn |-> "closed", last |-> last, reply |-> "none"]

Replied(last, reply) ==
  [pc |-> "connected", conn |-> "open", last |-> last, reply |-> reply]

\* listener.incoming() yields a stream
Accept ==
  /\ server.pc = "listening"
  /\ server' = [server EXCEPT !.pc = "connected", !.conn = "open"]
  /\ UNCHANGED <<exists, disk, open, index, pending, exclusion, result,
                 history, fault, replay, cast>>

\* stream.read returns Ok(0) or Err: the read loop ends, the stream is dropped
Hangup ==
  /\ server.pc = "connected"
  /\ server' = [server EXCEPT !.pc = "listening", !.conn = "closed"]
  /\ UNCHANGED <<exists, disk, open, index, pending, exclusion, result,
                 history, fault, replay, cast>>

\* a read of blanks only: tokens is empty, the loop continues
BlankLine ==
  /\ server.pc = "connected"
  /\ server' = Replied("blank", "none")
  /\ UNCHANGED <<exists, disk, open, index, pending, exclusion, result,
                 history, fault, replay, cast>>

\* "get": tokens[1], db.get, the value or "Key not found"
ServeGet(args) ==
  IF Len(args) < 1
  THEN /\ server' = Panicked("missing_token")
       /\ open' = [open EXCEPT ![Main] = FALSE]
       /\ UNCHANGED <<disk, index, result, history>>
  ELSE LET r == GetValue(index[Main], disk, args[1])
       IN  /\ result' = Res("get", Main, args[1], r.res, r.value)
           /\ server' = IF r.res = "Ok" THEN Replied("ok", "value")
                        ELSE Replied("engine_err", "Key not found")
           /\ UNCHANGED <<disk, open, index, history>>

\* "put": tokens[1], tokens[2], db.put(..).unwrap(), "OK"
ServePut(args) ==
  IF Len(args) < 2
  THEN /\ server' = Panicked("missing_token")
       /\ open' = [open EXCEPT ![Main] = FALSE]
       /\ UNCHANGED <<disk, index, result, history>>
  ELSE /\ Ops < MaxServerOps
       /\ LET offset == PutOffset(disk)
          IN  /\ disk' = PutDisk(disk, args[1], args[2], offset)
              /\ index' = [index EXCEPT
                             ![Main] = IndexInsert(@, args[1], offset)]
              /\ history' = Append(history,
                                   Hist("put", Main, args[1], args[2], offset))
       /\ result' = Res("put", Main, args[1], "Ok", <<>>)
       /\ server' = Replied("ok", "OK")
       /\ UNCHANGED open

\* "delete": tokens[1], db.delete(key).unwrap(), "OK"
ServeDelete(args) ==
  IF Len(args) < 1
  THEN /\ server' = Panicked("missing_token")
       /\ open' = [open EXCEPT ![Main] = FALSE]
       /\ UNCHANGED <<disk, index, result, history>>
  ELSE IF args[1] \in DOMAIN index[Main]
  THEN /\ Ops < MaxServerOps
       /\ disk' = DeleteDisk(disk, index[Main][args[1]])
       /\ index' = [index EXCEPT ![Main] = IndexRemove(@, args[1])]
       /\ history' = Append(history, Hist("delete", Main, args[1], <<>>,
                                          index[Main][args[1]]))
       /\ result' = Res("delete", Main, args[1], "Ok", <<>>)
       /\ server' = Replied("ok", "OK")
       /\ UNCHANGED open
  ELSE /\ result' = Res("delete", Main, args[1], "NotFound", <<>>)
       /\ server' = Panicked("engine_err")
       /\ open' = [open EXCEPT ![Main] = FALSE]
       /\ UNCHANGED <<disk, index, history>>

\* an unrecognized verb
ServeOther ==
  /\ server' = Replied("invalid", "Invalid command")
  /\ UNCHANGED <<disk, open, index, result, history>>

\* one pass of the read loop over a line with at least one token
Command(verb, args) ==
  /\ server.pc = "connected"
  /\ CASE ToLowercase(verb) = "get" -> ServeGet(args)
       [] ToLowercase(verb) = "put" -> ServePut(args)
       [] ToLowercase(verb) = "delete" -> ServeDelete(args)
       [] OTHER -> ServeOther
  /\ UNCHANGED <<exists, pending, exclusion, fault, replay, cast>>

\* main: the listener is bound and example.db is opened, here an empty log
InitServer ==
  /\ exists = TRUE
  /\ disk = <<>>
  /\ history = <<Hist("open", Main, <<>>, <<>>, 0)>>
  /\ open = [i \in Engines |-> i = Main]
  /\ index = [i \in Engines |-> EmptyIndex]
  /\ pending = [i \in Engines |-> NoPending]
  /\ exclusion = TRUE
  /\ result = Res("open", Main, <<>>, "Ok", <<>>)
  /\ fault = NoFault
  /\ replay = NoReplay
  /\ cast = NoCast
  /\ server = [pc |-> "listening", conn |-> "none", last |-> "none",
               reply |-> "none"]

NextServer ==
  \/ Accept
  \/ Hangup
  \/ BlankLine
  \/ \E verb \in Verbs, args \in Args : Command(verb, args)

SpecServer == InitServer /\ [][NextServer]_vars

(* ---------------------------- history ---------------------------------- *)
SetMax(S) == CHOOSE m \in S : \A x \in S : x <= m

\* position in history of the open that started the current session
SessionStart ==
  LET S == {j \in 1..Len(history) : history[j].op = "open"}
  IN  IF S = {} THEN 0 ELSE SetMax(S)

\* position of the last successful put or delete of key k at or after `from`
LastOpOn(k, from) ==
  LET S == {j \in from..Len(history) :
              history[j].key = k /\ history[j].op \in {"put", "delete"}}
  IN  IF S = {} THEN 0 ELSE SetMax(S)

PutsOf(k) ==
  {j \in 1..Len(history) : history[j].op = "put" /\ history[j].key = k}

NoDeletes == \A j \in 1..Len(history) : history[j].op # "delete"

\* the session has seen no put or delete since its open
FreshlyOpened == open[Main] /\ SessionStart = Len(history)

\* the log was empty when the current session opened it
StartedOnEmptyLog ==
  \A j \in 1..SessionStart : history[j].op # "put"

GetNow(k) == GetValue(index[Main], disk, k)
Ok(v) == [res |-> "Ok", value |-> v]

(* ---------------------------- C1 --------------------------------------- *)
\* C1: in an open engine, for every key whose most recent successful
\* operation of the session is put(k, v), get(k) returns exactly v, never a
\* value that a later put superseded.
C1_GetReturnsLastPut ==
  open[Main] =>
    \A k \in Keys :
      LET j == LastOpOn(k, SessionStart + 1)
      IN  (j # 0 /\ history[j].op = "put") => GetNow(k) = Ok(history[j].value)

\* a get of a key that was put twice in the session, with different values
C1_Witness ==
  /\ open[Main]
  /\ result.op = "get" /\ result.res = "Ok"
  /\ \E j1, j2 \in PutsOf(result.key) :
       /\ SessionStart < j1 /\ j1 < j2
       /\ history[j1].value # history[j2].value
       /\ j2 = LastOpOn(result.key, SessionStart + 1)
       /\ result.value = history[j2].value

(* ---------------------------- C2 --------------------------------------- *)
\* C2: after put(k, v), a successful delete(k) and no later put(k, .), an
\* engine reopened on the same log answers get(k) with NotFound.
C2_DeletedKeyNotFoundAfterReopen ==
  FreshlyOpened =>
    \A k \in Keys :
      LET j == LastOpOn(k, 1)
      IN  (j # 0 /\ history[j].op = "delete") => GetNow(k).res = "NotFound"

(* ---------------------------- C3 --------------------------------------- *)
\* C3: after a sequence of puts and no delete, an engine reopened on the same
\* file returns for every key the value of its last put, the record of the
\* key at the highest offset.
C3_ReopenResolvesLastPut ==
  (FreshlyOpened /\ NoDeletes) =>
    \A k \in Keys :
      PutsOf(k) # {} => GetNow(k) = Ok(history[SetMax(PutsOf(k))].value)

\* a get, after a reopen, of a key the log holds two different values for
C3_Witness ==
  /\ FreshlyOpened /\ NoDeletes
  /\ result.op = "get" /\ result.res = "Ok"
  /\ \E j1, j2 \in PutsOf(result.key) :
       /\ j1 < j2 /\ j2 < SessionStart
       /\ history[j1].value # history[j2].value
       /\ history[j1].offset < history[j2].offset
       /\ result.value = history[j2].value

(* ---------------------------- C4 --------------------------------------- *)
\* C4: in an engine started on an empty log, get(k) fails with NotFound when
\* k was never put or its most recent successful operation is a delete; and
\* a get changes neither the log nor the index.
C4_NotFoundInv ==
  (open[Main] /\ StartedOnEmptyLog) =>
    \A k \in Keys :
      LET j == LastOpOn(k, 1)
      IN  (j = 0 \/ history[j].op = "delete") => GetNow(k).res = "NotFound"

C4_GetFrame ==
  result'.op = "get" =>
    (disk' = disk /\ exists' = exists /\ index' = index /\ open' = open)

C4_GetNotFound == [] C4_NotFoundInv /\ [][C4_GetFrame]_vars

\* get(k) after put(k, v1); put(k, v2); delete(k) on an empty log
C4_Witness ==
  /\ open[Main] /\ StartedOnEmptyLog
  /\ result.op = "get" /\ result.res = "NotFound"
  /\ \E j1, j2, j3 \in 1..Len(history) :
       /\ j1 < j2 /\ j2 < j3
       /\ history[j1].op = "put" /\ history[j1].key = result.key
       /\ history[j2].op = "put" /\ history[j2].key = result.key
       /\ history[j1].value # history[j2].value
       /\ history[j3].op = "delete" /\ history[j3].key = result.key
       /\ j3 = LastOpOn(result.key, 1)

(* ---------------------------- C5 --------------------------------------- *)
\* C5: delete(k) of a key that is not in the index fails with NotFound and
\* leaves the log file, its length and the index unchanged.
C5_DeleteMissingStep ==
  (result'.op = "delete" /\ result'.key \notin DOMAIN index[Main]) =>
    /\ result'.res = "NotFound"
    /\ disk' = disk /\ exists' = exists /\ index' = index

C5_DeleteMissing == [][C5_DeleteMissingStep]_vars

\* a delete of a key already deleted in this session, on a non-empty log
C5_Witness ==
  /\ open[Main]
  /\ result.op = "delete" /\ result.res = "NotFound"
  /\ Len(disk) > 0
  /\ \E j \in (SessionStart + 1)..Len(history) :
       history[j].op = "delete" /\ history[j].key = result.key

(* ---------------------------- C6 --------------------------------------- *)
\* the bytes of the record that starts at offset o
RecordAt(f, o) ==
  LET header == HeaderFromBytes(ReadAtBuf(f, HeaderSize, o))
  IN  SubSeq(f, o + 1, o + HeaderSize + header.key_size + header.value_size)

\* C6: a put(k1, .) or delete(k1) leaves, for every other key k2, the index
\* entry of k2, the bytes of k2's record and the outcome of get(k2) unchanged.
C6_OtherKeysStep ==
  (result'.op \in {"put", "delete"} /\ result'.res = "Ok") =>
    \A k2 \in Keys \ {result'.key} :
      /\ (k2 \in DOMAIN index'[Main]) = (k2 \in DOMAIN index[Main])
      /\ k2 \in DOMAIN index[Main] =>
           /\ index'[Main][k2] = index[Main][k2]
           /\ RecordAt(disk', index[Main][k2]) = RecordAt(disk, index[Main][k2])
      /\ GetValue(index'[Main], disk', k2) = GetValue(index[Main], disk, k2)

C6_OtherKeysUnaffected == [][C6_OtherKeysStep]_vars

\* a delete succeeded while another key, put before it, is in the index
C6_Witness ==
  /\ open[Main]
  /\ result.op = "delete" /\ result.res = "Ok"
  /\ \E k2 \in DOMAIN index[Main] \ {result.key} :
       index[Main][k2] < history[Len(history)].offset

(* ---------------------------- C7 --------------------------------------- *)
RECURSIVE SumPutSizes(_, _)
SumPutSizes(j, hdr) ==
  IF j = 0 THEN 0
  ELSE SumPutSizes(j - 1, hdr)
       + (IF history[j].op = "put"
          THEN hdr + Len(history[j].key) + Len(history[j].value) ELSE 0)

\* C7: the serialized header is 17 bytes, so every record occupies exactly
\* 17 + key_size + value_size bytes: the log's length is the sum of
\* 17 + len(k) + len(v) over the puts, and each put wrote at that running sum.
C7_RecordIs17PlusPayload ==
  /\ Len(disk) = SumPutSizes(Len(history), 17)
  /\ \A j \in 1..Len(history) :
       history[j].op = "put" => history[j].offset = SumPutSizes(j - 1, 17)

(* ---------------------------- C8 --------------------------------------- *)
AllPuts == {j \in 1..Len(history) : history[j].op = "put"}

\* C8: when the operations are serialized by external exclusion, no two puts
\* write at the same offset; without it two puts can read the same end of
\* file, write at the same offset, and leave an index entry on bytes that
\* are not the record it put (C8_Witness).
C8_SerializedPutsDistinctOffsets ==
  exclusion =>
    \A j1, j2 \in AllPuts : j1 # j2 => history[j1].offset # history[j2].offset

\* no exclusion: two engines wrote at the same offset, and the index of the
\* first still maps its key to that offset, where its record no longer is
C8_Witness ==
  /\ ~exclusion
  /\ \E j1, j2 \in AllPuts :
       /\ j1 < j2
       /\ history[j1].eng # history[j2].eng
       /\ history[j1].offset = history[j2].offset
       /\ LET h == history[j1]
              rec == EntryToBytes(NewEntry(h.key, h.value))
          IN  /\ h.key \in DOMAIN index[h.eng]
              /\ index[h.eng][h.key] = h.offset
              /\ SubSeq(disk, h.offset + 1, h.offset + Len(rec)) # rec
              /\ result.op = "get" /\ result.eng = h.eng /\ result.key = h.key
              /\ result.value # h.value

(* ---------------------------- C9 --------------------------------------- *)
\* C9: open on a path where no file exists fails with an I/O error and does
\* not create the file; open on an existing empty file succeeds with an
\* empty index, so every get fails with NotFound.
C9_OpenMissingStep ==
  (result'.op = "open" /\ ~exists) =>
    (result'.res = "IoError" /\ ~exists' /\ open' = open /\ index' = index)

C9_OpenEmptyInv ==
  (result.op = "open" /\ result.res = "Ok" /\ disk = <<>>) =>
    /\ open[Main]
    /\ index[Main] = EmptyIndex
    /\ \A k \in Keys : GetNow(k).res = "NotFound"

C9_Open == [][C9_OpenMissingStep]_vars /\ [] C9_OpenEmptyInv

\* an open failed on the missing file, which is still missing
C9_Witness ==
  /\ result.op = "open" /\ result.res = "IoError"
  /\ ~exists /\ ~open[Main]

(* ---------------------------- C10 -------------------------------------- *)
KeysPut == {history[j].key : j \in {i \in 1..Len(history) : history[i].op = "put"}}

\* key -> offset of the highest-offset record written for the key
LatestRecordOffsets ==
  [k \in KeysPut |-> SetMax({history[j].offset : j \in PutsOf(k)})]

\* C10: after open's replay the index holds exactly the keys of the records
\* of the log, records flagged deleted included, each mapped to the offset of
\* the key's highest-offset record.
C10_ReplayIndexesEveryRecord ==
  (result.op = "open" /\ result.res = "Ok") =>
    index[Main] = LatestRecordOffsets

\* a reopen of a log whose key was put twice and then deleted
C10_Witness ==
  /\ result.op = "open" /\ result.res = "Ok"
  /\ \E k \in DOMAIN index[Main] :
       /\ Cardinality(PutsOf(k)) >= 2
       /\ LET j == LastOpOn(k, 1) IN j # 0 /\ history[j].op = "delete"
       /\ HeaderFromBytes(ReadAtBuf(disk, HeaderSize, index[Main][k])).is_deleted

(* ---------------------------- C11 -------------------------------------- *)
\* C11: a put or delete whose file write did not complete in full (an error,
\* or a short write) returns an error and leaves the index exactly as it was
\* before the call.
C11_IncompleteWriteStep ==
  (result'.op \in {"put", "delete"} /\ fault'.kind # "none") =>
    (result'.res = "IoError" /\ index' = index)

C11_IndexOnlyAfterFullWrite == [][C11_IncompleteWriteStep]_vars

(* ---------------------------- C12 -------------------------------------- *)
\* C12: when a read of open's replay fails, the header read or the read of
\* the whole record, open returns an I/O error and no engine is returned.
C12_ReadErrorFailsOpen ==
  (result.op = "open" /\ fault.kind \in {"header_read_err", "entry_read_err"}) =>
    (result.res = "IoError" /\ ~open[Main])

(* ---------------------------- C13 -------------------------------------- *)
\* position in the file of the is_deleted byte of the record at offset o
FlagPos(o) == o + 9

\* the bytes of put j's record, with the is_deleted byte as it is on disk
RecordOfPut(j) ==
  [EntryToBytes(NewEntry(history[j].key, history[j].value))
     EXCEPT ![9] = disk[FlagPos(history[j].offset)]]

\* C13: put(k, v) writes at the file length before the call, grows the file
\* by the record's size, changes no earlier byte, maps k to that offset and
\* leaves the other index entries alone; so the log is the concatenation in
\* call order of the records of the puts, and its length never decreases.
C13_PutStep ==
  (result'.op = "put" /\ result'.res = "Ok") =>
    LET h == history'[Len(history')]
        o == Len(disk)
    IN  /\ h.offset = o
        /\ Len(disk') = o + HeaderSize + Len(h.key) + Len(h.value)
        /\ SubSeq(disk', 1, o) = disk
        /\ SubSeq(disk', o + HeaderSize + 1, o + HeaderSize + Len(h.key)) = h.key
        /\ SubSeq(disk', o + HeaderSize + Len(h.key) + 1, Len(disk')) = h.value
        /\ DOMAIN index'[Main] = DOMAIN index[Main] \cup {h.key}
        /\ index'[Main][h.key] = o
        /\ \A k2 \in DOMAIN index[Main] \ {h.key} :
             index'[Main][k2] = index[Main][k2]

C13_LengthStep == Len(disk') >= Len(disk)

C13_LogIsConcatenation ==
  /\ Len(disk) = SumPutSizes(Len(history), HeaderSize)
  /\ \A j \in AllPuts :
       /\ history[j].offset = SumPutSizes(j - 1, HeaderSize)
       /\ SubSeq(disk, history[j].offset + 1,
                 history[j].offset + Len(RecordOfPut(j))) = RecordOfPut(j)

C14_DeleteStep ==
  (result'.op = "delete" /\ result'.res = "Ok") =>
    LET k == result'.key
        o == index[Main][k]
    IN  /\ k \in DOMAIN index[Main]
        /\ Len(disk') = Len(disk)
        /\ \A p \in 1..Len(disk) : p # FlagPos(o) => disk'[p] = disk[p]
        /\ disk'[FlagPos(o)] = 1
        /\ DOMAIN index'[Main] = DOMAIN index[Main] \ {k}
        /\ \A k2 \in DOMAIN index'[Main] : index'[Main][k2] = index[Main][k2]

C14_DeleteFlipsOneByte == [][C14_DeleteStep]_vars

\* a delete of a key with a non-empty key and value and an older record
C14_Witness ==
  /\ result.op = "delete" /\ result.res = "Ok"
  /\ LET h == history[Len(history)]
     IN  /\ h.op = "delete"
         /\ disk[FlagPos(h.offset)] = 1
         /\ \E j1, j2 \in PutsOf(h.key) :
              /\ history[j1].offset < history[j2].offset
              /\ history[j2].offset = h.offset
              /\ Len(history[j2].key) > 0 /\ Len(history[j2].value) > 0
              /\ disk[FlagPos(history[j1].offset)] = 0

(* ---------------------------- C16 -------------------------------------- *)
\* C16: every index entry k -> o points at the start of a complete record of
\* the log whose key bytes are k, and no record with key k starts after o.
C16_IndexEntriesValid ==
  \A k \in DOMAIN index[Main] :
    LET o == index[Main][k]
        header == HeaderFromBytes(ReadAtBuf(disk, HeaderSize, o))
    IN  /\ \E j \in AllPuts : history[j].offset = o
        /\ o + HeaderSize + header.key_size + header.value_size <= Len(disk)
        /\ header.key_size = Len(k)
        /\ SubSeq(disk, o + HeaderSize + 1, o + HeaderSize + Len(k)) = k
        /\ \A j \in PutsOf(k) : history[j].offset <= o

\* an index entry of a key that has an older record, in a reopened engine
C16_Witness ==
  /\ open[Main] /\ Sessions >= 2
  /\ \E k \in DOMAIN index[Main] :
       /\ Len(k) > 0
       /\ \E j \in PutsOf(k) : history[j].offset < index[Main][k]

(* ---------------------------- C17 -------------------------------------- *)
\* the log held no record flagged deleted when the session opened it
NoFlaggedAtSessionStart ==
  \A j \in 1..SessionStart : history[j].op # "delete"

Flagged(o) == disk[FlagPos(o)] # 0

\* C17: in a session started on a log without flagged records, every record
\* an index entry refers to has is_deleted = false, no flagged record is
\* referred to by the index, and a get never returns a flagged record's value.
C17_IndexAndFlagsAgree ==
  (open[Main] /\ NoFlaggedAtSessionStart) =>
    /\ \A k \in DOMAIN index[Main] : ~Flagged(index[Main][k])
    /\ \A j \in AllPuts :
         Flagged(history[j].offset) =>
           \A k \in DOMAIN index[Main] : index[Main][k] # history[j].offset
    /\ \A k \in Keys :
         GetNow(k).res = "Ok" =>
           (k \in DOMAIN index[Main] /\ ~Flagged(index[Main][k]))

\* a key deleted and put again: its old record is flagged, its new one indexed
C17_Witness ==
  /\ open[Main] /\ NoFlaggedAtSessionStart
  /\ \E k \in DOMAIN index[Main] :
       \E j \in PutsOf(k) :
         /\ Flagged(history[j].offset)
         /\ history[j].offset < index[Main][k]

(* ---------------------------- C15 -------------------------------------- *)
\* the log is a concatenation of whole records
WellFormedLog == \A j \in 1..Len(history) : history[j].op # "truncate"

\* C15: replay terminates on every finite log: an iteration advances the
\* cursor by at least the header size, a zero-length header read ends the
\* loop, and on a concatenation of well-formed records replay ends with
\* success after visiting every record once, in ascending offset order.
C15_LoopStep ==
  /\ (replay.pc = "loop" /\ replay'.pc = "loop" /\ replay' # replay) =>
       /\ ReadAtCount(disk, HeaderSize, replay.offset) > 0
       /\ replay'.offset >= replay.offset + HeaderSize
       /\ replay'.visited = Append(replay.visited, replay.offset)
  /\ (replay.pc = "loop" /\ replay'.pc = "done") =>
       ReadAtCount(disk, HeaderSize, replay.offset) = 0
  /\ (replay.pc = "loop" /\ replay' # replay
        /\ ReadAtCount(disk, HeaderSize, replay.offset) = 0) =>
       replay'.pc = "done"

C15_DoneInv ==
  (replay.pc = "done" /\ WellFormedLog) =>
    /\ result.op = "open" /\ result.res = "Ok"
    /\ replay.visited = [j \in 1..Len(history) |-> history[j].offset]
    /\ \A j \in 1..(Len(replay.visited) - 1) :
         replay.visited[j] < replay.visited[j + 1]
    /\ replay.offset = Len(disk)
    /\ index[Main] = LoadIndex(disk)

C15_Terminates == (replay.pc = "loop") ~> (replay.pc = "done")

C15_ReplayTerminates ==
  [][C15_LoopStep]_vars /\ [] C15_DoneInv /\ C15_Terminates

\* replay ended on a whole log of two records, the first one flagged deleted
C15_Witness ==
  /\ replay.pc = "done" /\ WellFormedLog
  /\ Len(replay.visited) >= 2
  /\ disk[FlagPos(replay.visited[1])] = 1
  /\ replay.visited[2] > replay.visited[1]

\* C18: for every record written by put(k, v) the header's key_size equals
\* the byte length of k and value_size the byte length of v, for every
\* length, those that do not fit the 32-bit size fields included.
C18_SizesEqualLengths ==
  (cast.pc = "written") =>
    /\ cast.key_size = cast.key_len
    /\ cast.value_size = cast.value_len

\* C19: in the network front end, when the engine operation of a command
\* fails or a command line lacks its key or value token, the server writes a
\* textual notice, keeps the connection open and keeps serving; no command
\* sequence from a client stops the server.
C19_ServerKeepsServing ==
  /\ server.pc # "panicked"
  /\ (server.last \in {"engine_err", "missing_token"}) =>
       /\ server.reply \in {"Key not found", "Invalid command"}
       /\ server.conn = "open" \/ server.pc = "listening"

====
